---------------------------- MODULE Spec2Model ----------------------------
(***************************************************************************)
(* A model of the token cache of yup-oauth2: the scope fingerprint and the  *)
(* token map (src/src/storage.rs), the disk-backed store with its writer    *)
(* task (src/src/storage.rs), the Authenticator's get_token loop            *)
(* (src/src/authenticator.rs) and the service-account get_token             *)
(* (src/src/service_account.rs).                                            *)
(*                                                                          *)
(* Three specifications share the variables:                                *)
(*   SpecHash  the pure functions of storage.rs applied to drawn inputs     *)
(*   SpecDisk  DiskStorage: concurrent set callers and the writer task      *)
(*   Spec      get_token of an Authenticator or of a ServiceAccountAccess   *)
(* A specification leaves the variables of the other two at their parked    *)
(* initial values.                                                          *)
(***************************************************************************)
EXTENDS Integers, Sequences, FiniteSets, TLC

VARIABLES
    \* ---- SpecHash: inputs and outputs of the pure functions
    hin,            \* <<a, b>>: two scope lists
    hout,           \* <<>> before the hashes are computed, then <<hash a, hash b>>
    \* ---- SpecDisk: DiskStorage
    tokens,         \* DiskStorage.tokens: the JSONTokens token_map, key -> JSONToken
    write_q,        \* the mpsc channel between write_tx and write_rx
    file,           \* the backing file: the JSON array last written to it
    wpc,            \* writer task: "recv" (awaiting write_rx.recv) or "write" (awaiting fs::write)
    wtokens,        \* writer task: its local `tokens`, the snapshot last received
    wres,           \* writer task: outcome of its last fs::write: "none", "ok", "err"
    errlog,         \* number of log::error! lines written by the writer
    spc,            \* per caller of DiskStorage::set: "idle" or "send" (awaiting send)
    sargs,          \* per caller: <<scopes, token>> of its set call in progress
    cloned_tokens,  \* per caller: its local `cloned_tokens`
    nsets,          \* number of set calls issued so far
    nrecv,          \* number of snapshots the writer has received so far
    lock,           \* DiskStorage.tokens mutex: "free" or the caller that holds it
    \* ---- Spec: get_token
    flow,           \* "auth" (AuthenticatorImpl), "sa" (ServiceAccountAccessImpl), "off"
    store,          \* the token map of the Authenticator's store / the signer's cache
    now,            \* the clock (chrono::Utc::now), in seconds
    pc,             \* position of the get_token call
    scopes,         \* the call's `scopes`
    tok,            \* the call's token local (`t` / `token`): <<>> or <<token>>
    result,         \* what the call returned: <<>> or <<kind, payload>>
    claims,         \* service account: the Claims of the request in flight, <<>> if none
    ev,             \* the current call's interactions with store, collaborators and delegate
    issued,         \* number of tokens handed out by the collaborators so far
    ncalls,         \* number of get_token calls started so far
    nerrs,          \* number of store accesses that have failed so far
    posts,          \* service account: number of requests sent to the token endpoint
    response        \* service account: the endpoint's answer to the call's request, <<>> if none

vars == <<hin, hout, tokens, write_q, file, wpc, wtokens, wres, errlog, spc, sargs,
          cloned_tokens, nsets, nrecv, lock, flow, store, now, pc, scopes, tok, result, claims,
          ev, issued, ncalls, nerrs, posts, response>>

hashVars == <<hin, hout>>
diskVars == <<tokens, write_q, file, wpc, wtokens, wres, errlog, spc, sargs,
              cloned_tokens, nsets, nrecv, lock>>
callVars == <<flow, store, now, pc, scopes, tok, result, claims, ev, issued, ncalls,
              nerrs, posts, response>>

-----------------------------------------------------------------------------
(* Bounds of the model *)

\* longest scope list drawn in SpecHash
MaxLen == 3
\* number of DiskStorage::set calls issued in one behaviour of SpecDisk
MaxSets == 3
\* number of get_token calls in one behaviour of Spec
MaxCalls == 2
\* last instant of the clock in Spec
MaxTime == 2
\* number of store accesses that fail in one behaviour of Spec
MaxErrs == 2

-----------------------------------------------------------------------------
(* Values *)

\* the scope strings of the model
Scopes == {"read", "write", "admin"}

\* Option<T>: None is <<>>, Some(x) is <<x>>
None == <<>>
Some(x) == <<x>>

\* Token.refresh_token absent
NoRefresh == "none"

\* types::Token; refresh_token is NoRefresh or a refresh token, expires_in is None
\* or Some(seconds), expires_at is None or Some(instant)
TokenOf(access, refresh, expires_in, expires_at) ==
    [access_token |-> access, refresh_token |-> refresh, expires_in |-> expires_in,
     expires_at |-> expires_at]

\* a token without expires_in
Token(access, refresh, expires_at) == TokenOf(access, refresh, None, expires_at)

\* storage::JSONToken
JSONToken(s, t) == [scopes |-> s, token |-> t]

\* all sequences over S of length at most n
RECURSIVE SeqsUpTo(_, _)
SeqsUpTo(S, n) ==
    IF n = 0 THEN {<<>>}
    ELSE LET shorter == SeqsUpTo(S, n - 1)
         IN  shorter \cup {Append(s, x) : s \in {t \in shorter : Len(t) = n - 1}, x \in S}

Range(s) == {s[i] : i \in 1..Len(s)}

-----------------------------------------------------------------------------
(* storage.rs: the scope fingerprint *)

\* bitwise exclusive or of two naturals (the `^` of u64)
RECURSIVE Xor(_, _)
Xor(a, b) ==
    IF a = 0 THEN b
    ELSE IF b = 0 THEN a
    ELSE (((a % 2) + (b % 2)) % 2) + (2 * Xor(a \div 2, b \div 2))

\* seahash::hash of a scope string: a fixed function of the bytes; the model keeps
\* the low bits of one value per scope string, pairwise distinct and such that no
\* exclusive or of different sets of them coincides
seahash(s) ==
    CASE s = "read"  -> 5
      [] s = "write" -> 3
      [] s = "admin" -> 9

\* a left fold that combines order-dependently (h * 2 instead of h)
RECURSIVE HashFoldShift(_, _)
HashFoldShift(h, s) ==
    IF s = <<>> THEN h
    ELSE HashFoldShift(Xor((h * 2) % 64, seahash(Head(s))), Tail(s))

\* scopes.iter().fold(h, |h, scope| h ^ seahash::hash(scope))
RECURSIVE HashFold(_, _)
HashFold(h, s) ==
    IF s = <<>> THEN h
    ELSE HashFold(Xor(h, seahash(Head(s))), Tail(s))

\* HashedScopes::from(scopes).hash
HashedScopes_hash(s) == HashFold(0, s)

\* HashedScopes::from(scopes): the pair {hash, scopes}
HashedScopes_from(s) == [hash |-> HashedScopes_hash(s), scopes |-> s]

-----------------------------------------------------------------------------
(* storage.rs: JSONTokens, the token map (a BTreeMap<u64, JSONToken>) *)

\* JSONTokens::new
JSONTokens_new == <<>>

MinOf(S) == CHOOSE x \in S : \A y \in S : x <= y

\* BTreeMap::values: the entries in ascending key order
RECURSIVE ValuesFrom(_, _)
ValuesFrom(m, keys) ==
    IF keys = {} THEN <<>>
    ELSE LET k == MinOf(keys) IN <<m[k]>> \o ValuesFrom(m, keys \ {k})

\* JSONTokens::all_tokens
all_tokens(m) == ValuesFrom(m, DOMAIN m)

\* scopes.iter().all(|s| t.scopes.iter().any(|t| t == s))
IsSuperset(granted, requested) ==
    \A i \in 1..Len(requested) : \E j \in 1..Len(granted) : granted[j] = requested[i]

\* the first entry of vs, in order, whose scopes cover the requested ones
RECURSIVE FirstSuperset(_, _)
FirstSuperset(vs, requested) ==
    IF vs = <<>> THEN None
    ELSE IF IsSuperset(Head(vs).scopes, requested) THEN Some(Head(vs).token)
    ELSE FirstSuperset(Tail(vs), requested)

\* JSONTokens::get without the scan for a superset
JSONTokens_get_exact(m, hs) ==
    IF hs.hash \in DOMAIN m THEN Some(m[hs.hash].token) ELSE None

\* JSONTokens::get
JSONTokens_get(m, hs) ==
    IF hs.hash \in DOMAIN m
    THEN Some(m[hs.hash].token)
    ELSE FirstSuperset(ValuesFrom(m, DOMAIN m), hs.scopes)

\* an insert that keeps the entry a key already has
InsertIfAbsent(m, k, v) == IF k \in DOMAIN m THEN m ELSE m @@ (k :> v)

\* BTreeMap::insert
Insert(m, k, v) == [x \in (DOMAIN m) \cup {k} |-> IF x = k THEN v ELSE m[x]]

\* a set that drops the entries whose scopes the new entry's scopes cover
JSONTokens_set_merging(m, hs, token) ==
    LET kept == {k \in DOMAIN m : ~IsSuperset(hs.scopes, m[k].scopes)}
    IN  Insert([k \in kept |-> m[k]], hs.hash, JSONToken(hs.scopes, token))

\* a set that keys the entry by the fingerprint of the first scope alone
JSONTokens_set_first_scope(m, hs, token) ==
    Insert(m, HashedScopes_hash(SubSeq(hs.scopes, 1, 1)), JSONToken(hs.scopes, token))

\* JSONTokens::set
JSONTokens_set(m, hs, token) == Insert(m, hs.hash, JSONToken(hs.scopes, token))

\* collect() of (hash, json_token) pairs into a BTreeMap: a later pair replaces an
\* earlier one with the same key
RECURSIVE Collect(_, _)
Collect(m, vec) ==
    IF vec = <<>> THEN m
    ELSE Collect(Insert(m, HashedScopes_hash(Head(vec).scopes), Head(vec)), Tail(vec))

\* a load that keys every entry by its position in the file
RECURSIVE CollectByPosition(_, _)
CollectByPosition(m, vec) ==
    IF vec = <<>> THEN m
    ELSE CollectByPosition(Insert(m, Len(vec), Head(vec)), Tail(vec))

load_from_file_by_position(contents) == CollectByPosition(<<>>, contents)

\* JSONTokens::load_from_file, given the parsed contents of the file
load_from_file(contents) == Collect(<<>>, contents)

-----------------------------------------------------------------------------
(* Parked values: what a specification gives the variables it does not use *)

HashParked == hin = <<>> /\ hout = <<>>

DiskParked ==
    /\ tokens = <<>> /\ write_q = <<>> /\ file = <<>> /\ wpc = "off"
    /\ wtokens = <<>> /\ wres = "none" /\ errlog = 0 /\ spc = <<>> /\ sargs = <<>>
    /\ cloned_tokens = <<>> /\ nsets = 0 /\ nrecv = 0 /\ lock = "free"

CallParked ==
    /\ flow = "off" /\ store = <<>> /\ now = 0 /\ pc = "off" /\ scopes = <<>>
    /\ tok = <<>> /\ result = <<>> /\ claims = <<>> /\ ev = <<>>
    /\ issued = 0 /\ ncalls = 0 /\ nerrs = 0 /\ posts = 0 /\ response = <<>>

-----------------------------------------------------------------------------
(* SpecHash: the fingerprint applied to two drawn scope lists *)

ScopeLists == SeqsUpTo(Scopes, MaxLen)

InitHash ==
    /\ hin \in ScopeLists \X ScopeLists
    /\ hout = <<>>
    /\ DiskParked /\ CallParked

\* HashedScopes::from on both lists
Hash ==
    /\ hout = <<>>
    /\ hout' = <<HashedScopes_from(hin[1]).hash, HashedScopes_from(hin[2]).hash>>
    /\ UNCHANGED <<hin, diskVars, callVars>>

NextHash == Hash

SpecHash == InitHash /\ [][NextHash]_vars

-----------------------------------------------------------------------------
(* SpecDisk: DiskStorage (storage.rs), set callers and the writer task *)

\* the capacity of the channel: mpsc::channel::<Vec<JSONToken>>(2)
Capacity == 2

\* the tasks that call DiskStorage::set concurrently
Callers == {"c1", "c2"}

\* the arguments the set calls are drawn from
SetScopes == {<<"read">>, <<"write">>, <<"read", "write">>, <<"write", "read">>}
\* every set call stores a token of its own, numbered by the order of the calls
SetTokens == {Token(n, "r1", None) : n \in 1..MaxSets}
NextSetToken == Token(nsets + 1, "r1", None)

\* what the backing file holds when the store is constructed
InitialFiles ==
    { <<>>,
      <<JSONToken(<<"read", "write">>, Token(0, NoRefresh, None))>> }

\* the file's content: a JSON array of entries, or the remains of a write that failed
\* part-way
FileOf(entries) == [valid |-> TRUE, entries |-> entries]
PartialFile == [valid |-> FALSE, entries |-> <<>>]

\* DiskStorage::new(path) on a file that holds a JSON array
InitDisk ==
    /\ \E f \in InitialFiles :
         /\ file = FileOf(f)
         /\ tokens = load_from_file(f)
    /\ write_q = <<>>
    /\ wpc = "recv" /\ wtokens = <<>> /\ wres = "none" /\ errlog = 0
    /\ spc = [c \in Callers |-> "idle"]
    /\ sargs = [c \in Callers |-> <<>>]
    /\ cloned_tokens = [c \in Callers |-> <<>>]
    /\ nsets = 0 /\ nrecv = 0
    /\ lock = "free"
    /\ HashParked /\ CallParked

\* a channel that admits every send
AlwaysRoom(q) == TRUE

\* the channel has a free slot
HasRoom(q) == Len(q) < Capacity

\* a set that still holds the lock on the token map when it awaits the send
SetLockedAcrossSend(c, s, t) ==
    /\ spc[c] = "idle"
    /\ nsets < MaxSets
    /\ lock = "free"
    /\ LET m == JSONTokens_set(tokens, HashedScopes_from(s), t)
       IN  /\ tokens' = m
           /\ cloned_tokens' = [cloned_tokens EXCEPT ![c] = all_tokens(m)]
    /\ sargs' = [sargs EXCEPT ![c] = <<s, t>>]
    /\ spc' = [spc EXCEPT ![c] = "send"]
    /\ nsets' = nsets + 1
    /\ lock' = c
    /\ UNCHANGED <<write_q, file, wpc, wtokens, wres, errlog, nrecv, hashVars, callVars>>

\* DiskStorage::get: the lock is taken for the lookup alone; the call cannot go on
\* while another caller holds the lock
DiskStorage_get(m, l, s) ==
    IF l = "free"
    THEN [blocked |-> FALSE, token |-> JSONTokens_get(m, HashedScopes_from(s))]
    ELSE [blocked |-> TRUE, token |-> None]

\* DiskStorage::set up to its await: the lock is taken, tokens.set and all_tokens run
\* under it, and it is released at the end of the block
SetLocked(c, s, t) ==
    /\ spc[c] = "idle"
    /\ nsets < MaxSets
    /\ lock = "free" /\ lock' = "free"
    /\ LET m == JSONTokens_set(tokens, HashedScopes_from(s), t)
       IN  /\ tokens' = m
           /\ cloned_tokens' = [cloned_tokens EXCEPT ![c] = all_tokens(m)]
    /\ sargs' = [sargs EXCEPT ![c] = <<s, t>>]
    /\ spc' = [spc EXCEPT ![c] = "send"]
    /\ nsets' = nsets + 1
    /\ UNCHANGED <<write_q, file, wpc, wtokens, wres, errlog, nrecv, hashVars, callVars>>

\* a set that writes its snapshot to the file itself before it returns
SetSendWritesFile(c) ==
    /\ spc[c] = "send"
    /\ file' = FileOf(cloned_tokens[c])
    /\ spc' = [spc EXCEPT ![c] = "idle"]
    /\ sargs' = [sargs EXCEPT ![c] = <<>>]
    /\ cloned_tokens' = [cloned_tokens EXCEPT ![c] = <<>>]
    /\ UNCHANGED <<tokens, write_q, wpc, wtokens, wres, errlog, nsets, nrecv, hashVars,
                   callVars, lock>>

\* DiskStorage::set: write_tx.clone().send(cloned_tokens).await completes once the
\* channel has room
SetSend(c) ==
    /\ spc[c] = "send"
    /\ HasRoom(write_q)
    /\ write_q' = Append(write_q, cloned_tokens[c])
    /\ spc' = [spc EXCEPT ![c] = "idle"]
    /\ sargs' = [sargs EXCEPT ![c] = <<>>]
    /\ cloned_tokens' = [cloned_tokens EXCEPT ![c] = <<>>]
    /\ UNCHANGED <<tokens, file, wpc, wtokens, wres, errlog, nsets, nrecv, hashVars,
                   callVars, lock>>

\* a writer task that takes a snapshot only once the channel is full
WriterRecvWhenFull ==
    /\ wpc = "recv"
    /\ Len(write_q) = Capacity
    /\ wtokens' = Head(write_q)
    /\ write_q' = Tail(write_q)
    /\ wpc' = "write"
    /\ nrecv' = nrecv + 1
    /\ UNCHANGED <<tokens, file, wres, errlog, spc, sargs, cloned_tokens, nsets,
                   hashVars, callVars, lock>>

\* writer task: write_rx.recv().await returns the oldest snapshot
WriterRecv ==
    /\ wpc = "recv"
    /\ write_q # <<>>
    /\ wtokens' = Head(write_q)
    /\ write_q' = Tail(write_q)
    /\ wpc' = "write"
    /\ nrecv' = nrecv + 1
    /\ UNCHANGED <<tokens, file, wres, errlog, spc, sargs, cloned_tokens, nsets,
                   hashVars, callVars, lock>>

\* writer task: tokio::fs::write(path, ser).await succeeds: the file is overwritten
WriterWriteOk ==
    /\ wpc = "write"
    /\ file' = FileOf(wtokens)
    /\ wres' = "ok"
    /\ wpc' = "recv"
    /\ UNCHANGED <<tokens, write_q, wtokens, errlog, spc, sargs, cloned_tokens, nsets,
                   nrecv, hashVars, callVars, lock>>

\* a writer task that ends at its first failure
WriterWriteErrStops ==
    /\ wpc = "write"
    /\ file' \in {file, PartialFile}
    /\ wres' = "err"
    /\ errlog' = errlog + 1
    /\ wpc' = "stopped"
    /\ UNCHANGED <<tokens, write_q, wtokens, spc, sargs, cloned_tokens, nsets, nrecv,
                   hashVars, callVars, lock>>

\* writer task: serde_json::to_string fails (the file is unchanged), or
\* tokio::fs::write fails, before the file is opened (unchanged) or after it was
\* truncated; the error is logged and the loop goes on
WriterWriteErr ==
    /\ wpc = "write"
    /\ file' \in {file, PartialFile}
    /\ wres' = "err"
    /\ errlog' = errlog + 1
    /\ wpc' = "recv"
    /\ UNCHANGED <<tokens, write_q, wtokens, spc, sargs, cloned_tokens, nsets, nrecv,
                   hashVars, callVars, lock>>

NextDisk ==
    \/ \E c \in Callers, s \in SetScopes : SetLocked(c, s, NextSetToken)
    \/ \E c \in Callers : SetSend(c)
    \/ WriterRecv
    \/ WriterWriteOk
    \/ WriterWriteErr

SpecDisk == InitDisk /\ [][NextDisk]_vars

\* the writer task and the suspended senders are tasks of the runtime, which polls a
\* task that can go on: the writer takes a snapshot that is there and its write ends,
\* and a send that has room completes
FairDisk ==
    /\ WF_vars(WriterRecv)
    /\ WF_vars(WriterWriteOk \/ WriterWriteErr)
    /\ \A c \in Callers : WF_vars(SetSend(c))

SpecDiskFair == InitDisk /\ [][NextDisk]_vars /\ FairDisk

-----------------------------------------------------------------------------
(* Spec: get_token of AuthenticatorImpl (authenticator.rs) and of             *)
(* ServiceAccountAccessImpl (service_account.rs)                              *)

\* the scope lists the get_token calls are drawn from
CallScopes == {<<"read", "write">>, <<"write">>}

\* the answers of AuthenticatorDelegate::token_storage_failure
Retry == {"Skip", "Abort", "After"}

\* the delays a delegate asks for with Retry::After(d)
Delays == {0, 1}

\* the lifetimes of the tokens the collaborators hand out
Lifetimes == {1}

\* the expires_in values of the token endpoint's responses
ExpiresIn == {1, 2}

\* the service account key of the signer
Key == [client_email |-> "sa@example", token_uri |-> "https://example/token"]

\* Token::expired: expires_at is present and at or before the current time
expired(t, time) == t.expires_at # None /\ t.expires_at[1] <= time

\* a test that takes every cached token for usable
UsableAlways(t, time) == TRUE

\* is the cached token still to be used at this time (`!t.expired()`)
Usable(t, time) == ~expired(t, time)

\* the tokens a token-getter or a refresh flow can hand out at this time, numbered
\* by issue
NewTokens(time) ==
    { Token(issued + 1, r, e) :
        r \in {NoRefresh, "r1"}, e \in {None} \cup {Some(time + l) : l \in Lifetimes} }

\* one interaction of a call: op is what was called, arg its argument of interest,
\* out its outcome
Event(op, arg, out) == [op |-> op, arg |-> arg, out |-> out]

\* the number of interactions `op` of the current call
RECURSIVE NumIn(_, _)
NumIn(log, op) ==
    IF log = <<>> THEN 0
    ELSE (IF Head(log).op = op THEN 1 ELSE 0) + NumIn(Tail(log), op)

\* the result a call has while it runs, and the results it returns
Pending == [state |-> "pending", token |-> None, err |-> ""]
Ok(t) == [state |-> "Ok", token |-> Some(t), err |-> ""]
Err(e) == [state |-> "Err", token |-> None, err |-> e]

\* a store (or cache) that holds nothing, the clock at 0, no call made
InitCall ==
    /\ flow \in {"auth", "sa"}
    /\ store = JSONTokens_new
    /\ now = 0
    /\ pc = "idle"
    /\ scopes = <<>> /\ tok = None /\ result = Pending /\ claims = <<>>
    /\ ev = <<>>
    /\ issued = 0 /\ ncalls = 0 /\ nerrs = 0 /\ posts = 0 /\ response = <<>>
    /\ HashParked /\ DiskParked

\* the call returns r
Return(r) == pc' = "done" /\ result' = r

\* time passes
Tick ==
    /\ flow \in {"auth", "sa"}
    /\ now < MaxTime
    /\ now' = now + 1
    /\ UNCHANGED <<flow, store, pc, scopes, tok, result, claims, ev, issued, ncalls,
                   nerrs, hashVars, diskVars, posts, response>>

\* ---- AuthenticatorImpl::get_token

\* the read arm with Skip taken as another try
OnReadFailureSkipRetries(ans) ==
    CASE ans = "Abort"             -> "Fail"
      [] ans \in {"Skip", "After"} -> "Retry"

\* Err(err) arm of the match on store.get: what follows the delegate's answer
OnReadFailure(ans) ==
    CASE ans \in {"Abort", "Skip"} -> "Fail"
      [] ans = "After"             -> "Retry"

\* the write arms with Skip and Abort swapped
OnWriteFailureSwapped(ans) ==
    CASE ans = "Skip"  -> "Fail"
      [] ans = "Abort" -> "ReturnToken"
      [] ans = "After" -> "Retry"

\* `if let Err(e) = store.set(..)`: what follows the delegate's answer
OnWriteFailure(ans) ==
    CASE ans = "Skip"  -> "ReturnToken"
      [] ans = "Abort" -> "Fail"
      [] ans = "After" -> "Retry"

\* get_token is called: the locals are set up and the loop is entered
GetToken(s) ==
    /\ flow = "auth"
    /\ pc \in {"idle", "done"}
    /\ ncalls < MaxCalls
    /\ ncalls' = ncalls + 1
    /\ scopes' = s
    /\ pc' = "Lookup"
    /\ tok' = None /\ result' = Pending /\ ev' = <<>>
    /\ UNCHANGED <<flow, store, now, claims, issued, nerrs, hashVars, diskVars, posts, response>>

\* loop head, store.get fails: the loop gives up by itself on the second failed read
\* of the store, whatever the delegate answers
LookupErrGivesUp(ans) ==
    /\ flow = "auth" /\ pc = "Lookup"
    /\ nerrs < MaxErrs
    /\ nerrs' = nerrs + 1
    /\ ev' = ev \o <<Event("get", "", "Err"), Event("token_storage_failure", "false", ans)>>
    /\ CASE OnReadFailure(ans) = "Fail" \/ NumIn(ev, "get") >= 1 -> Return(Err("Cache"))
         [] OTHER -> pc' = "WaitRetry" /\ UNCHANGED result
    /\ UNCHANGED <<flow, store, now, scopes, tok, claims, issued, ncalls, hashVars,
                   diskVars, posts, response>>

\* loop head, store.get fails: the delegate is consulted with is_write = false
LookupErr(ans) ==
    /\ flow = "auth" /\ pc = "Lookup"
    /\ nerrs < MaxErrs
    /\ nerrs' = nerrs + 1
    /\ ev' = ev \o <<Event("get", "", "Err"), Event("token_storage_failure", "false", ans)>>
    /\ CASE OnReadFailure(ans) = "Fail"  -> Return(Err("Cache"))
         [] OnReadFailure(ans) = "Retry" -> pc' = "WaitRetry" /\ UNCHANGED result
    /\ UNCHANGED <<flow, store, now, scopes, tok, claims, issued, ncalls, hashVars,
                   diskVars, posts, response>>

\* loop head, store.get finds a token that is not expired and returns it, but only
\* after asking the token-getter as well
LookupFoundAndFetch ==
    /\ flow = "auth" /\ pc = "Lookup"
    /\ LET r == JSONTokens_get(store, HashedScopes_from(scopes))
       IN  /\ r # None
           /\ Usable(r[1], now)
           /\ tok' = r
           /\ ev' = ev \o <<Event("get", "", "Fresh"), Event("fetch", "", "")>>
           /\ Return(Ok(r[1]))
    /\ UNCHANGED <<flow, store, now, scopes, claims, issued, ncalls, nerrs, hashVars,
                   diskVars, posts, response>>

\* loop head, store.get finds a token that is not expired: it is returned
LookupFound ==
    /\ flow = "auth" /\ pc = "Lookup"
    /\ LET r == JSONTokens_get(store, HashedScopes_from(scopes))
       IN  /\ r # None
           /\ Usable(r[1], now)
           /\ tok' = r
           /\ ev' = Append(ev, Event("get", "", "Fresh"))
           /\ Return(Ok(r[1]))
    /\ UNCHANGED <<flow, store, now, scopes, claims, issued, ncalls, nerrs, hashVars,
                   diskVars, posts, response>>

\* loop head, store.get finds an expired token with a refresh token:
\* RefreshFlow::refresh_token is called and awaited
LookupExpired ==
    /\ flow = "auth" /\ pc = "Lookup"
    /\ LET r == JSONTokens_get(store, HashedScopes_from(scopes))
       IN  /\ r # None
           /\ ~Usable(r[1], now)
           /\ r[1].refresh_token # NoRefresh
           /\ tok' = r
           /\ ev' = ev \o <<Event("get", "", "Expired"),
                            Event("refresh", r[1].refresh_token, "")>>
           /\ pc' = "Refresh"
    /\ UNCHANGED <<flow, store, now, scopes, result, claims, issued, ncalls, nerrs,
                   hashVars, diskVars, posts, response>>

\* loop head, store.get finds an expired token without a refresh token and the
\* entry is treated as absent: the token-getter is asked
LookupExpiredNoRefreshFetches ==
    /\ flow = "auth" /\ pc = "Lookup"
    /\ LET r == JSONTokens_get(store, HashedScopes_from(scopes))
       IN  /\ r # None
           /\ ~Usable(r[1], now)
           /\ r[1].refresh_token = NoRefresh
           /\ tok' = r
           /\ ev' = ev \o <<Event("get", "", "Expired"), Event("fetch", "", "")>>
           /\ pc' = "Fetch"
    /\ UNCHANGED <<flow, store, now, scopes, result, claims, issued, ncalls, nerrs,
                   hashVars, diskVars, posts, response>>

\* loop head, store.get finds an expired token without a refresh token:
\* refresh_token.unwrap() panics
LookupExpiredNoRefresh ==
    /\ flow = "auth" /\ pc = "Lookup"
    /\ LET r == JSONTokens_get(store, HashedScopes_from(scopes))
       IN  /\ r # None
           /\ ~Usable(r[1], now)
           /\ r[1].refresh_token = NoRefresh
           /\ tok' = r
           /\ ev' = Append(ev, Event("get", "", "Expired"))
           /\ pc' = "panicked"
    /\ UNCHANGED <<flow, store, now, scopes, result, claims, issued, ncalls, nerrs,
                   hashVars, diskVars, posts, response>>

\* loop head, store.get finds nothing: gettoken.token(scopes) is called and awaited
LookupNone ==
    /\ flow = "auth" /\ pc = "Lookup"
    /\ JSONTokens_get(store, HashedScopes_from(scopes)) = None
    /\ ev' = ev \o <<Event("get", "", "None"), Event("fetch", "", "")>>
    /\ pc' = "Fetch"
    /\ UNCHANGED <<flow, store, now, scopes, tok, result, claims, issued, ncalls, nerrs,
                   hashVars, diskVars, posts, response>>

\* store.set succeeds and also replaces the token of every entry whose scopes
\* contain the requested ones
PersistOkOverMatched(got, t) ==
    /\ store' = LET m == JSONTokens_set(store, HashedScopes_from(scopes), t)
                IN  [k \in DOMAIN m |->
                       IF IsSuperset(m[k].scopes, scopes)
                       THEN JSONToken(m[k].scopes, t) ELSE m[k]]
    /\ ev' = ev \o <<got, Event("set", "", "Ok")>>
    /\ Return(Ok(t))
    /\ UNCHANGED nerrs

\* store.set(scope_key, scopes, Some(t)) succeeds and t is returned
PersistOk(got, t) ==
    /\ store' = JSONTokens_set(store, HashedScopes_from(scopes), t)
    /\ ev' = ev \o <<got, Event("set", "", "Ok")>>
    /\ Return(Ok(t))
    /\ UNCHANGED nerrs

\* t is returned without store.set being called
PersistSkipped(got, t) ==
    /\ ev' = Append(ev, got)
    /\ Return(Ok(t))
    /\ UNCHANGED <<store, nerrs>>

\* store.set fails: the delegate is consulted with is_write = true
PersistErr(got, t, ans) ==
    /\ nerrs < MaxErrs
    /\ nerrs' = nerrs + 1
    /\ ev' = ev \o <<got, Event("set", "", "Err"),
                     Event("token_storage_failure", "true", ans)>>
    /\ CASE OnWriteFailure(ans) = "ReturnToken" -> Return(Ok(t))
         [] OnWriteFailure(ans) = "Fail"        -> Return(Err("Cache"))
         [] OnWriteFailure(ans) = "Retry"       -> pc' = "WaitRetry" /\ UNCHANGED result
    /\ UNCHANGED store

\* the failures the refresh flow reports: RefreshResult::Error for a transport or
\* low-level failure, RefreshResult::RefreshError for a rejected refresh token
RefreshFailures == {"Error", "RefreshError"}

\* the refresh flow fails and the call ends without the delegate being told
RefreshFailedSilent(kind) ==
    /\ flow = "auth" /\ pc = "Refresh"
    /\ ev' = Append(ev, Event("refresh_ret", "", kind))
    /\ Return(Err("Refresh"))
    /\ UNCHANGED <<flow, store, now, scopes, tok, claims, issued, ncalls, nerrs,
                   hashVars, diskVars, posts, response>>

\* the refresh flow fails: its own error is propagated by `?`, or its result is
\* RefreshResult::Error or RefreshResult::RefreshError, of which the delegate is told
RefreshFailed(kind) ==
    /\ flow = "auth" /\ pc = "Refresh"
    /\ ev' = ev \o (IF kind = "Err"
                    THEN <<Event("refresh_ret", "", kind)>>
                    ELSE <<Event("refresh_ret", "", kind),
                           Event("token_refresh_failed", "", "")>>)
    /\ Return(Err(IF kind = "Err" THEN "RefreshFlow" ELSE "Refresh"))
    /\ UNCHANGED <<flow, store, now, scopes, tok, claims, issued, ncalls, nerrs,
                   hashVars, diskVars, posts, response>>

\* the errors a token-getter reports
FetchErrors == {"UserError", "ClientError"}

\* the token-getter fails and the loop starts over instead of the call ending
FetchFailedRetries(e) ==
    /\ flow = "auth" /\ pc = "Fetch"
    /\ ev' = Append(ev, Event("fetch_ret", e, "Err"))
    /\ pc' = "Lookup"
    /\ UNCHANGED <<flow, store, now, scopes, tok, result, claims, issued, ncalls, nerrs,
                   hashVars, diskVars, posts, response>>

\* the token-getter fails and the failure is handled like a failed store write: the
\* delegate is asked and the error returned is the cache error
FetchFailedAsStorage(e) ==
    /\ flow = "auth" /\ pc = "Fetch"
    /\ ev' = ev \o <<Event("fetch_ret", e, "Err"),
                     Event("token_storage_failure", "true", "Abort")>>
    /\ Return(Err("Cache"))
    /\ UNCHANGED <<flow, store, now, scopes, tok, claims, issued, ncalls, nerrs,
                   hashVars, diskVars, posts, response>>

\* the token-getter fails with e: the error is propagated by `?`
FetchFailed(e) ==
    /\ flow = "auth" /\ pc = "Fetch"
    /\ ev' = Append(ev, Event("fetch_ret", e, "Err"))
    /\ Return(Err(e))
    /\ UNCHANGED <<flow, store, now, scopes, tok, claims, issued, ncalls, nerrs,
                   hashVars, diskVars, posts, response>>

\* the refresh flow answers RefreshResult::Success(t) and t is returned without
\* being stored
RefreshSuccessNoStore(t) ==
    /\ flow = "auth" /\ pc = "Refresh"
    /\ tok' = Some(t)
    /\ issued' = issued + 1
    /\ PersistSkipped(Event("refresh_ret", "", "Success"), t)
    /\ UNCHANGED <<flow, now, scopes, claims, ncalls, hashVars, diskVars, posts, response>>

\* the refresh flow answers RefreshResult::Success(t): t is stored
RefreshSuccess(t) ==
    /\ flow = "auth" /\ pc = "Refresh"
    /\ tok' = Some(t)
    /\ issued' = issued + 1
    /\ \/ PersistOk(Event("refresh_ret", "", "Success"), t)
       \/ \E ans \in Retry : PersistErr(Event("refresh_ret", "", "Success"), t, ans)
    /\ UNCHANGED <<flow, now, scopes, claims, ncalls, hashVars, diskVars, posts, response>>

\* the token-getter returns t without t being stored
FetchOkNoStore(t) ==
    /\ flow = "auth" /\ pc = "Fetch"
    /\ tok' = Some(t)
    /\ issued' = issued + 1
    /\ PersistSkipped(Event("fetch_ret", "", "Ok"), t)
    /\ UNCHANGED <<flow, now, scopes, claims, ncalls, hashVars, diskVars, posts, response>>

\* the token-getter returns t: t is stored
FetchOk(t) ==
    /\ flow = "auth" /\ pc = "Fetch"
    /\ tok' = Some(t)
    /\ issued' = issued + 1
    /\ \/ PersistOk(Event("fetch_ret", "", "Ok"), t)
       \/ \E ans \in Retry : PersistErr(Event("fetch_ret", "", "Ok"), t, ans)
    /\ UNCHANGED <<flow, now, scopes, claims, ncalls, hashVars, diskVars, posts, response>>

\* tokio::timer::delay_for(d) elapses and the loop starts over
WaitRetryDone(d) ==
    /\ flow = "auth" /\ pc = "WaitRetry"
    /\ now + d <= MaxTime
    /\ now' = now + d
    /\ ev' = Append(ev, Event("delay", "", ""))
    /\ pc' = "Lookup"
    /\ UNCHANGED <<flow, store, scopes, tok, result, claims, issued, ncalls, nerrs,
                   hashVars, diskVars, posts, response>>

\* ---- ServiceAccountAccessImpl::get_token

\* helper::join: the strings with the separator between neighbours, as the list of
\* the pieces of the joined string
RECURSIVE join(_, _)
join(s, sep) ==
    IF s = <<>> THEN <<>>
    ELSE IF Len(s) = 1 THEN <<s[1]>>
    ELSE <<s[1], sep>> \o join(Tail(s), sep)

\* claims that are valid for the full hour
Claims_new_full_hour(key, s, subject, time) ==
    [iss |-> key.client_email, aud |-> key.token_uri, exp |-> time + 3600,
     iat |-> time, subject |-> subject, scope |-> join(s, " ")]

\* Claims::new(key, scopes, subject) at the given time
Claims_new(key, s, subject, time) ==
    [iss |-> key.client_email, aud |-> key.token_uri, exp |-> time + 3600 - 5,
     iat |-> time, subject |-> subject, scope |-> join(s, " ")]

\* a cache lookup that takes every cached token for expired
CacheOutcomeStale(r, time) == IF r = None THEN "None" ELSE "Expired"

\* the classes of the cache lookup of a call
CacheOutcome(r, time) ==
    IF r = None THEN "None" ELSE IF Usable(r[1], time) THEN "Fresh" ELSE "Expired"

\* get_token is called and the cache holds a token that is not expired: it is returned
SAGetTokenCached(s) ==
    /\ flow = "sa"
    /\ pc \in {"idle", "done"}
    /\ ncalls < MaxCalls
    /\ ncalls' = ncalls + 1
    /\ scopes' = s
    /\ LET r == JSONTokens_get(store, HashedScopes_from(s))
       IN  /\ CacheOutcome(r, now) = "Fresh"
           /\ tok' = r
           /\ ev' = <<Event("get", "", "Fresh")>>
           /\ Return(Ok(r[1]))
    /\ claims' = <<>> /\ response' = None
    /\ UNCHANGED <<flow, store, now, issued, nerrs, hashVars, diskVars, posts>>

\* get_token is called and the cache holds no usable token: request_token builds the
\* claims, signs them and posts the assertion, and awaits the response
SAGetTokenRequest(s) ==
    /\ flow = "sa"
    /\ pc \in {"idle", "done"}
    /\ ncalls < MaxCalls
    /\ ncalls' = ncalls + 1
    /\ scopes' = s
    /\ LET r == JSONTokens_get(store, HashedScopes_from(s))
       IN  /\ CacheOutcome(r, now) # "Fresh"
           /\ ev' = <<Event("get", "", CacheOutcome(r, now)), Event("request", "", ""),
                       Event("post", Key.token_uri, "")>>
    /\ tok' = None
    /\ claims' = Some(Claims_new(Key, s, None, now))
    /\ pc' = "Request" /\ result' = Pending
    /\ posts' = posts + 1 /\ response' = None
    /\ UNCHANGED <<flow, store, now, issued, nerrs, hashVars, diskVars>>

\* get_token is called, the cache holds no usable token and signing the claims fails
SASignFailed(s) ==
    /\ flow = "sa"
    /\ pc \in {"idle", "done"}
    /\ ncalls < MaxCalls
    /\ ncalls' = ncalls + 1
    /\ scopes' = s
    /\ LET r == JSONTokens_get(store, HashedScopes_from(s))
       IN  /\ CacheOutcome(r, now) # "Fresh"
           /\ ev' = <<Event("get", "", CacheOutcome(r, now)), Event("request", "", ""),
                       Event("request_ret", "", "LowLevelError")>>
    /\ tok' = None
    /\ claims' = Some(Claims_new(Key, s, None, now))
    /\ Return(Err("LowLevelError")) /\ response' = None
    /\ UNCHANGED <<flow, store, now, issued, nerrs, hashVars, diskVars, posts>>

\* the ways an exchange fails: the transport, a body that is no JSON, an error
\* object, a response that lacks access_token, token_type or expires_in
ResponseErrors == {"ClientError", "JSONError", "NegativeServerResponse", "BadServerResponse"}

\* what the token endpoint can answer: no answer (the transport fails), a body that is
\* no JSON, an error object, or a TokenResponse with each field present or absent
TokenResponse(access_token, token_type, expires_in) ==
    [kind |-> "Data", access_token |-> access_token, token_type |-> token_type,
     expires_in |-> expires_in]
NoTokenResponse(kind) ==
    [kind |-> kind, access_token |-> None, token_type |-> None, expires_in |-> None]
Responses ==
    {NoTokenResponse(k) : k \in {"ClientError", "NotJSON", "ErrorObject"}}
      \cup {TokenResponse(a, tt, e) : a \in {None, Some("ya29")}, tt \in {None, Some("Bearer")},
                                      e \in {None} \cup {Some(x) : x \in ExpiresIn}}

\* a parse that asks for access_token and expires_in only
request_token_result_lenient(resp) ==
    CASE resp.kind = "ClientError" -> "ClientError"
      [] resp.kind = "NotJSON"     -> "JSONError"
      [] resp.kind = "ErrorObject" -> "NegativeServerResponse"
      [] resp.kind = "Data" ->
           IF resp.access_token # None /\ resp.expires_in # None
           THEN "Ok" ELSE "BadServerResponse"

\* request_token from the awaited response on: the transport error, the body parsed
\* as JsonErrorOr<TokenResponse>, and the match on it
request_token_result(resp) ==
    CASE resp.kind = "ClientError" -> "ClientError"
      [] resp.kind = "NotJSON"     -> "JSONError"
      [] resp.kind = "ErrorObject" -> "NegativeServerResponse"
      [] resp.kind = "Data" ->
           IF resp.access_token # None /\ resp.token_type # None /\ resp.expires_in # None
           THEN "Ok" ELSE "BadServerResponse"

\* request_token fails: get_token returns the error and leaves the cache alone
SAResponseErr(resp) ==
    /\ flow = "sa" /\ pc = "Request"
    /\ request_token_result(resp) \in ResponseErrors
    /\ response' = Some(resp)
    /\ ev' = Append(ev, Event("request_ret", "", request_token_result(resp)))
    /\ Return(Err(request_token_result(resp)))
    /\ UNCHANGED <<flow, store, now, scopes, tok, claims, issued, ncalls, nerrs,
                   hashVars, diskVars, posts>>

\* request_token gets a complete response and takes expires_in itself for the time
\* of expiry
SAResponseOkNoClock(resp) ==
    /\ flow = "sa" /\ pc = "Request"
    /\ request_token_result(resp) = "Ok"
    /\ response' = Some(resp)
    /\ LET expires_in == resp.expires_in[1]
           t == TokenOf(issued + 1, NoRefresh, Some(expires_in), Some(expires_in))
       IN  /\ tok' = Some(t)
           /\ store' = JSONTokens_set(store, HashedScopes_from(scopes), t)
           /\ Return(Ok(t))
    /\ issued' = issued + 1
    /\ ev' = ev \o <<Event("request_ret", "", "Ok"), Event("set", "", "Ok")>>
    /\ UNCHANGED <<flow, now, scopes, claims, ncalls, nerrs, hashVars, diskVars, posts>>

\* request_token gets a complete response: the token expires expires_in from now, is
\* put into the cache and returned
SAResponseOk(resp) ==
    /\ flow = "sa" /\ pc = "Request"
    /\ request_token_result(resp) = "Ok"
    /\ response' = Some(resp)
    /\ LET expires_in == resp.expires_in[1]
           t == TokenOf(issued + 1, NoRefresh, Some(expires_in), Some(now + expires_in))
       IN  /\ tok' = Some(t)
           /\ store' = JSONTokens_set(store, HashedScopes_from(scopes), t)
           /\ Return(Ok(t))
    /\ issued' = issued + 1
    /\ ev' = ev \o <<Event("request_ret", "", "Ok"), Event("set", "", "Ok")>>
    /\ UNCHANGED <<flow, now, scopes, claims, ncalls, nerrs, hashVars, diskVars, posts>>

NextCall ==
    \/ Tick
    \/ \E s \in CallScopes : GetToken(s)
    \/ \E ans \in Retry : LookupErr(ans)
    \/ LookupFound
    \/ LookupExpired
    \/ LookupExpiredNoRefresh
    \/ LookupNone
    \/ \E kind \in RefreshFailures : RefreshFailed(kind)
    \/ \E t \in NewTokens(now) : RefreshSuccess(t)
    \/ \E e \in FetchErrors : FetchFailed(e)
    \/ \E t \in NewTokens(now) : FetchOk(t)
    \/ \E d \in Delays : WaitRetryDone(d)
    \/ \E s \in CallScopes : SAGetTokenCached(s)
    \/ \E s \in CallScopes : SAGetTokenRequest(s)
    \/ \E s \in CallScopes : SASignFailed(s)
    \/ \E resp \in Responses : SAResponseErr(resp)
    \/ \E resp \in Responses : SAResponseOk(resp)

Spec == InitCall /\ [][NextCall]_vars

-----------------------------------------------------------------------------
(* Claims about the fingerprint (SpecHash) *)

\* the number of times x occurs in the list s
RECURSIVE Count(_, _)
Count(s, x) == IF s = <<>> THEN 0 ELSE (IF Head(s) = x THEN 1 ELSE 0) + Count(Tail(s), x)

\* b is a permutation of a
IsPermutation(a, b) == \A x \in Scopes : Count(a, x) = Count(b, x)

\* C6: the fingerprints of two scope lists that are permutations of each other are
\* equal, for every pair of lists of at most MaxLen scopes.
C6_PermutationSameHash ==
    (hout # <<>> /\ IsPermutation(hin[1], hin[2])) => hout[1] = hout[2]

\* the fingerprints of two different orderings of three different scopes were computed
C6_Witness ==
    /\ hout # <<>>
    /\ hin[1] = <<"read", "write", "admin">>
    /\ hin[2] = <<"admin", "read", "write">>
    /\ hout[1] = hout[2]

-----------------------------------------------------------------------------
(* Claims about DiskStorage (SpecDisk) *)

\* no set call is in progress, the channel is empty and the writer is idle
Quiescent ==
    /\ \A c \in Callers : spc[c] = "idle"
    /\ write_q = <<>>
    /\ wpc = "recv"

\* C1: once every set call has returned and the writer has drained the channel (no
\* write having failed), the file holds the full in-memory token map, that is the
\* snapshot of the last set issued.
C1_FinalFileIsLastSnapshot ==
    (Quiescent /\ nsets > 0 /\ errlog = 0) => file = FileOf(all_tokens(tokens))

\* the number of set calls suspended on the send
Waiting == Cardinality({c \in Callers : spc[c] = "send"})

\* C7: the channel never holds more than Capacity snapshots, and every snapshot
\* taken by a set call is either still held by its suspended caller, in the channel,
\* or was received by the writer: none is dropped.
C7_Backpressure ==
    /\ Len(write_q) <= Capacity
    /\ nsets = Waiting + Len(write_q) + nrecv

\* the channel is full, a set call is suspended on it, and an earlier one was admitted
C7_Witness ==
    /\ Len(write_q) = Capacity
    /\ Waiting >= 1
    /\ ~ENABLED (\E c \in Callers : SetSend(c))

\* C8: the snapshot a set(S, T) takes holds the entry (S, T), and after a completed
\* flush of a snapshot a store loaded from the file returns, for the scopes of every
\* entry of that snapshot, the token of that entry.
C8_DiskRoundTrip ==
    /\ \A c \in Callers :
         spc[c] = "send" =>
           \E i \in 1..Len(cloned_tokens[c]) :
             cloned_tokens[c][i] = JSONToken(sargs[c][1], sargs[c][2])
    /\ (wpc = "recv" /\ wres = "ok") =>
         /\ file.valid
         /\ LET fresh == load_from_file(file.entries)
            IN  \A i \in 1..Len(wtokens) :
                  JSONTokens_get(fresh, HashedScopes_from(wtokens[i].scopes))
                    = Some(wtokens[i].token)

\* a snapshot of two entries written by set calls was flushed
C8_Witness ==
    /\ wpc = "recv" /\ wres = "ok"
    /\ Len(wtokens) = 2
    /\ file = FileOf(wtokens)
    /\ \A i \in 1..2 : wtokens[i].token \in SetTokens

-----------------------------------------------------------------------------
(* Claims about the token map's lookup (SpecDisk) *)

\* the scope lists looked up
LookupLists == SeqsUpTo(Scopes, 2)

\* every scope of the requested list occurs in the granted list
Covers(granted, requested) ==
    \A i \in 1..Len(requested) : \E j \in 1..Len(granted) : requested[i] = granted[j]

\* C5: when the token map has no entry at the fingerprint of the requested scopes,
\* get returns the token of an entry whose granted scopes contain every requested
\* scope if there is one, and reports not found if there is none.
C5_SupersetLookup ==
    \A r \in LookupLists :
      HashedScopes_hash(r) \notin DOMAIN tokens =>
        LET got == JSONTokens_get(tokens, HashedScopes_from(r))
        IN  IF got = None
            THEN \A k \in DOMAIN tokens : ~Covers(tokens[k].scopes, r)
            ELSE \E k \in DOMAIN tokens :
                   Covers(tokens[k].scopes, r) /\ got = Some(tokens[k].token)

\* the map holds an entry for ["read", "write"] and none at the fingerprint of
\* ["write"], and the lookup of ["write"] returns the token of that entry; and the
\* lookup of ["admin"] finds nothing
C5_Witness ==
    /\ nsets > 0
    /\ HashedScopes_hash(<<"write">>) \notin DOMAIN tokens
    /\ \E k \in DOMAIN tokens :
         /\ tokens[k].scopes = <<"read", "write">>
         /\ tokens[k].token \in SetTokens
         /\ JSONTokens_get(tokens, HashedScopes_from(<<"write">>)) = Some(tokens[k].token)
    /\ JSONTokens_get(tokens, HashedScopes_from(<<"admin">>)) = None

-----------------------------------------------------------------------------
(* Claims about get_token (Spec) *)

\* the number of fetch calls of the current call: token-getter calls of the
\* Authenticator, request_token calls (sign and exchange) of the service account
Fetches == NumIn(ev, "fetch") + NumIn(ev, "request")

\* the store accesses of the current call that failed
StoreFailures == {i \in 1..Len(ev) : ev[i].op \in {"get", "set"} /\ ev[i].out = "Err"}

\* the requested scopes' entry of the store is exactly the call's token
Cached(t) ==
    LET h == HashedScopes_hash(scopes)
    IN  h \in DOMAIN store /\ store[h] = JSONToken(scopes, t)

RefreshSucceeded == \E i \in 1..Len(ev) : ev[i] = Event("refresh_ret", "", "Success")

\* the first Lookup of the current call found an expired token (with a refresh token)
FoundExpired == flow = "auth" /\ ev # <<>> /\ ev[1] = Event("get", "", "Expired")

NotCached(t) == \A k \in DOMAIN store : store[k].token # t

\* C9: in an Authenticator call, a failed store write is followed at once by the
\* delegate's token_storage_failure with is_write = true; on Skip the call returns
\* the new token, which is not in the store; on Abort it fails with the storage
\* error; on After it sleeps and then starts over at Lookup, where a store read that
\* succeeds leads to a new fetch or refresh; and every store write directly follows
\* its own successful fetch or refresh.
C9_WriteFailurePolicy ==
    flow = "auth" =>
      \A i \in 1..Len(ev) :
        /\ ev[i] = Event("set", "", "Err") =>
             /\ i < Len(ev)
             /\ ev[i + 1].op = "token_storage_failure" /\ ev[i + 1].arg = "true"
        /\ ev[i].op = "set" =>
             /\ i > 2
             /\ \/ ev[i - 1] = Event("fetch_ret", "", "Ok") /\ ev[i - 2].op = "fetch"
                \/ ev[i - 1] = Event("refresh_ret", "", "Success") /\ ev[i - 2].op = "refresh"
        /\ (ev[i].op = "token_storage_failure" /\ ev[i].arg = "true") =>
             /\ i > 1
             /\ ev[i - 1] = Event("set", "", "Err")
             /\ ev[i].out = "Skip" =>
                  /\ i = Len(ev) /\ pc = "done"
                  /\ result = Ok(tok[1])
                  /\ NotCached(tok[1])
             /\ ev[i].out = "Abort" =>
                  /\ i = Len(ev) /\ pc = "done"
                  /\ result = Err("Cache")
             /\ ev[i].out = "After" =>
                  /\ i = Len(ev) => pc = "WaitRetry"
                  /\ i < Len(ev) => ev[i + 1].op = "delay"
                  /\ i + 1 < Len(ev) => ev[i + 2].op = "get"
                  /\ (i + 2 < Len(ev) /\ ev[i + 2].out # "Err") =>
                       ev[i + 3].op \in {"fetch", "refresh"}

\* a write failed and was retried, the retry fetched again, its write failed too and
\* the delegate answered Skip: the call returned the second token
C9_Witness ==
    /\ flow = "auth" /\ pc = "done"
    /\ NumIn(ev, "fetch") = 2
    /\ \E i \in 1..Len(ev) : ev[i] = Event("token_storage_failure", "true", "After")
    /\ ev[Len(ev)] = Event("token_storage_failure", "true", "Skip")
    /\ result = Ok(tok[1])

\* C10: in an Authenticator call, a failed store read is followed at once by the
\* delegate's token_storage_failure with is_write = false; on Abort and on Skip the
\* call ends there, failed with the storage error, no fetch or refresh having been
\* issued after the read; on After it sleeps and then reads the store again.
C10_ReadFailurePolicy ==
    flow = "auth" =>
      \A i \in 1..Len(ev) :
        /\ ev[i] = Event("get", "", "Err") =>
             /\ i < Len(ev)
             /\ ev[i + 1].op = "token_storage_failure" /\ ev[i + 1].arg = "false"
        /\ (ev[i].op = "token_storage_failure" /\ ev[i].arg = "false") =>
             /\ i > 1
             /\ ev[i - 1] = Event("get", "", "Err")
             /\ ev[i].out \in {"Abort", "Skip"} =>
                  /\ i = Len(ev) /\ pc = "done"
                  /\ result = Err("Cache")
             /\ ev[i].out = "After" =>
                  /\ i = Len(ev) => pc = "WaitRetry"
                  /\ i < Len(ev) => ev[i + 1].op = "delay"
                  /\ i + 1 < Len(ev) => ev[i + 2].op = "get"

\* a read failed and was retried, the second read failed too and the delegate
\* answered Skip: the call failed without a fetch or a refresh
C10_Witness ==
    /\ flow = "auth" /\ pc = "done"
    /\ ev = <<Event("get", "", "Err"), Event("token_storage_failure", "false", "After"),
              Event("delay", "", ""),
              Event("get", "", "Err"), Event("token_storage_failure", "false", "Skip")>>
    /\ result = Err("Cache")
    /\ Fetches = 0 /\ NumIn(ev, "refresh") = 0

-----------------------------------------------------------------------------
(* Claims about the failure paths of get_token (Spec) *)

\* the call's log holds a store write that succeeded
StoreWritten(log) == \E i \in 1..Len(log) : log[i] = Event("set", "", "Ok")

\* the step in which the awaited refresh flow reports a failure
RefreshFails ==
    /\ flow = "auth" /\ pc = "Refresh"
    /\ \E i \in (Len(ev) + 1)..Len(ev') :
         ev'[i].op = "refresh_ret" /\ ev'[i].out \in RefreshFailures

AskedRetry(log) ==
    \E i \in 1..Len(log) : log[i].op = "token_storage_failure" /\ log[i].out = "After"

\* a fetch or a refresh came back with a failure
CollaboratorFailed(e) ==
    \/ e.op = "fetch_ret" /\ e.out = "Err"
    \/ e.op = "refresh_ret" /\ e.out \in RefreshFailures

\* C12: Authenticator.get_token reads the store again only after a storage error for
\* which the delegate answered Retry::After (and the delay); a failed fetch or refresh
\* is the end of the call, nothing but the delegate's notification follows it. Hence a
\* call in which the delegate never answers Retry::After reads the store at most
\* once, makes at most one fetch or refresh call and at most one store write, and
\* never waits: its log cannot grow beyond these interactions.
C12_RetryOnlyOnStorageError ==
    flow = "auth" =>
      /\ \A i \in 1..Len(ev) :
           /\ (ev[i].op = "get" /\ i > 1) =>
                /\ i > 3
                /\ ev[i - 1].op = "delay"
                /\ ev[i - 2].op = "token_storage_failure" /\ ev[i - 2].out = "After"
                /\ ev[i - 3].op \in {"get", "set"} /\ ev[i - 3].out = "Err"
           /\ CollaboratorFailed(ev[i]) =>
                /\ pc = "done" /\ result.state = "Err"
                /\ \A j \in (i + 1)..Len(ev) : ev[j].op = "token_refresh_failed"
      /\ ~AskedRetry(ev) =>
           /\ NumIn(ev, "get") <= 1
           /\ NumIn(ev, "fetch") + NumIn(ev, "refresh") <= 1
           /\ NumIn(ev, "set") <= 1
           /\ pc # "WaitRetry"
           /\ Len(ev) <= 5

\* a call that read the store twice, the second time after a failed write and a
\* delay the delegate asked for, and then returned a token
C12_Witness ==
    /\ flow = "auth" /\ pc = "done" /\ result.state = "Ok"
    /\ NumIn(ev, "get") = 2
    /\ \E i \in 1..Len(ev) : ev[i] = Event("token_storage_failure", "true", "After")
    /\ NumIn(ev, "fetch") = 2

-----------------------------------------------------------------------------
(* Claims about the service-account path (Spec) *)

\* a get_token(s) call is made on the signer
SACalled(s) == flow = "sa" /\ pc \in {"idle", "done"} /\ ncalls' = ncalls + 1 /\ scopes' = s

\* the signer's cache holds, at the fingerprint of s, a token that has not expired
CachedUsable(s) ==
    LET h == HashedScopes_hash(s)
    IN  h \in DOMAIN store /\ Usable(store[h].token, now)

\* C13: service-account path: a get_token(S) made while the cache holds a token for S,
\* put there by an earlier successful call and not yet expired, returns that cached
\* token (same access_token and expires_in) and sends nothing to the token endpoint;
\* so when the second call of a signer is served from the cache, the endpoint was hit
\* exactly once over both calls.
C13_SecondCallFromCache ==
    [][ /\ (\E s \in CallScopes : SACalled(s) /\ CachedUsable(s)) =>
             /\ pc' = "done"
             /\ result' = Ok(store[HashedScopes_hash(scopes')].token)
             /\ posts' = posts /\ issued' = issued /\ store' = store
             /\ ev' = <<Event("get", "", "Fresh")>>
        /\ (flow = "sa" /\ ncalls' = 2 /\ pc' = "done" /\ ev' = <<Event("get", "", "Fresh")>>)
             => posts' = 1 ]_vars

\* the second call for the scopes of the first returned the first call's token
C13_Witness ==
    /\ flow = "sa" /\ ncalls = 2 /\ pc = "done" /\ posts = 1
    /\ ev = <<Event("get", "", "Fresh")>>
    /\ scopes = <<"read", "write">>
    /\ store[HashedScopes_hash(scopes)].scopes = scopes
    /\ result = Ok(store[HashedScopes_hash(scopes)].token)
    /\ result.token[1].access_token = 1 /\ result.token[1].expires_in = Some(2)
    /\ now = 1

\* the answer is an error object, or a TokenResponse that lacks a required field
Incomplete(resp) ==
    \/ resp.kind = "ErrorObject"
    \/ resp.kind = "Data" /\ (resp.access_token = None \/ resp.token_type = None
                                \/ resp.expires_in = None)

\* C14: service-account path: when the token endpoint answers with an explicit error
\* object or with a response that lacks access_token, token_type or expires_in,
\* get_token returns an error and the signer's cache is exactly as it was before.
C14_MalformedResponseFails ==
    [][ (flow = "sa" /\ pc = "Request" /\ response' # None /\ Incomplete(response'[1])) =>
          /\ pc' = "done"
          /\ result'.state = "Err"
          /\ result'.err = (IF response'[1].kind = "ErrorObject"
                             THEN "NegativeServerResponse" ELSE "BadServerResponse")
          /\ store' = store /\ issued' = issued ]_vars

\* a call on an empty cache ended by a response without token_type
C14_Witness ==
    /\ flow = "sa" /\ pc = "done" /\ result = Err("BadServerResponse")
    /\ response = Some(TokenResponse(Some("ya29"), None, Some(2)))
    /\ HashedScopes_hash(scopes) \notin DOMAIN store
    /\ store = JSONTokens_new

-----------------------------------------------------------------------------
(* Further claims about the token map and the disk writer (SpecDisk) *)

\* C15: a failure of the background writer to serialize or write a snapshot is only
\* logged: in the step in which it fails the in-memory token map is unchanged (the
\* update is kept), no set call is affected (every caller is where it was, and a set
\* call has no failing outcome), nothing is taken from or put back into the queue,
\* and the writer is back at receiving the next snapshot.
C15_WriterFailureOnlyLogged ==
    [][ errlog' # errlog =>
          /\ errlog' = errlog + 1 /\ wpc = "write" /\ wres' = "err"
          /\ tokens' = tokens
          /\ spc' = spc /\ sargs' = sargs /\ cloned_tokens' = cloned_tokens
          /\ write_q' = write_q /\ nsets' = nsets
          /\ wpc' = "recv" ]_vars

\* after a failed write the writer received and wrote a later snapshot, and the map
\* still holds every update
C15_Witness ==
    /\ errlog = 1 /\ wres = "ok" /\ nrecv = 2 /\ wpc = "recv"
    /\ nsets = 2 /\ \A c \in Callers : spc[c] = "idle"
    /\ file = FileOf(all_tokens(tokens))
    /\ Len(all_tokens(tokens)) = 2

\* C16: set(scopes, token) writes exactly one token map entry, the one at the exact
\* fingerprint of the given scopes, made of these scopes and this token; every entry
\* at another fingerprint is kept as it was, whether or not its scopes overlap the
\* given ones.
C16_SetWritesOneEntry ==
    [][ nsets' # nsets =>
          \E c \in Callers :
            /\ spc[c] = "idle" /\ spc'[c] = "send"
            /\ LET s == sargs'[c][1]
                   t == sargs'[c][2]
                   h == HashedScopes_hash(s)
               IN  /\ DOMAIN tokens' = DOMAIN tokens \cup {h}
                   /\ tokens'[h] = JSONToken(s, t)
                   /\ \A k \in DOMAIN tokens \ {h} : tokens'[k] = tokens[k] ]_vars

\* entries for "read", for "write" and for both coexist, the narrow ones written last
C16_Witness ==
    /\ nsets >= 2
    /\ \E k1, k2, k3 \in DOMAIN tokens :
         /\ tokens[k1].scopes = <<"read", "write">>
         /\ tokens[k2].scopes = <<"read">>
         /\ tokens[k3].scopes = <<"write">>
         /\ tokens[k1].token.access_token < tokens[k2].token.access_token
         /\ tokens[k1].token.access_token < tokens[k3].token.access_token

-----------------------------------------------------------------------------
(* Claims about expiry and the signed claims (Spec) *)

\* the step in which a get_token call returns a token
ReturnsToken ==
    /\ flow \in {"auth", "sa"}
    /\ pc' = "done" /\ result'.state = "Ok"
    /\ pc # "done" \/ ncalls' # ncalls

\* C17: get_token (Authenticator or service-account path) never returns from the
\* cache a token whose expires_at is present and at or before the current time: a
\* returned token is either a stored token that is not expired at the time of the
\* lookup, the store left as it is, or the token obtained in this very step by a
\* refresh, a fetch or a sign+exchange.
C17_NoExpiredFromCache ==
    [][ ReturnsToken =>
          LET t == result'.token[1]
          IN  \/ /\ issued' = issued /\ store' = store /\ now' = now
                 /\ \E k \in DOMAIN store : store[k].token = t
                 /\ ~expired(t, now)
                 /\ ev'[Len(ev')] = Event("get", "", "Fresh")
              \/ /\ issued' = issued + 1
                 /\ t.access_token = issued'
                 /\ \A k \in DOMAIN store : store[k].token # t
                 /\ ev'[Len(ev')].op \in {"set", "token_storage_failure"} ]_vars

\* a call that found an expired token in the store and returned a newer one
C17_Witness ==
    /\ pc = "done" /\ result.state = "Ok"
    /\ ev[1] = Event("get", "", "Expired")
    /\ result.token[1].access_token = issued /\ issued = 2
    /\ ~expired(result.token[1], now)

\* C18: the Claims built for a signing operation have exp = iat + 3595 (3600 s less
\* the 5 s margin) with iat a time not after now, iss the key's client_email, aud the
\* key's token_uri, and as scope the requested scopes in the caller's order with one
\* space between neighbours (and none before the first or after the last).
C18_ClaimsFields ==
    (flow = "sa" /\ claims # None) =>
      LET c == claims[1]
      IN  /\ c.exp = c.iat + 3595
          /\ c.iat <= now
          /\ c.iss = Key.client_email
          /\ c.aud = Key.token_uri
          /\ Len(c.scope) = 2 * Len(scopes) - 1
          /\ \A i \in 1..Len(scopes) : c.scope[2 * i - 1] = scopes[i]
          /\ \A i \in 1..(Len(scopes) - 1) : c.scope[2 * i] = " "

\* claims for two scopes, built at time 1
C18_Witness ==
    /\ flow = "sa" /\ pc = "Request" /\ claims # None
    /\ scopes = <<"read", "write">>
    /\ claims[1].scope = <<"read", " ", "write">>
    /\ claims[1].iat = 1 /\ claims[1].exp = 3596

-----------------------------------------------------------------------------
(* Reads after writes on the token map (SpecDisk) *)

\* the fingerprints of the entries of a snapshot are pairwise different
OnePerFingerprint(entries) ==
    \A i, j \in 1..Len(entries) :
        HashedScopes_hash(entries[i].scopes) = HashedScopes_hash(entries[j].scopes) => i = j

\* the permutations of a scope list
ScopePermutations(s) == {p \in [1..Len(s) -> Range(s)] : IsPermutation(p, s)}

\* C19: after set(S, T), get(S') returns T for every permutation S' of S, and goes on
\* doing so until a later set under the same fingerprint: an entry changes only in a
\* set step for its own fingerprint, which replaces it, so the map, and every
\* snapshot of it, holds at most one entry per fingerprint.
C19_ReadYourWrites ==
    [][ /\ nsets' # nsets =>
             \E c \in Callers :
               /\ spc[c] = "idle" /\ spc'[c] = "send"
               /\ \A p \in ScopePermutations(sargs'[c][1]) :
                    JSONTokens_get(tokens', HashedScopes_from(p)) = Some(sargs'[c][2])
        /\ \A k \in DOMAIN tokens :
             /\ k \in DOMAIN tokens'
             /\ tokens'[k] # tokens[k] =>
                  /\ nsets' = nsets + 1
                  /\ \E c \in Callers :
                       /\ spc[c] = "idle" /\ spc'[c] = "send"
                       /\ HashedScopes_hash(sargs'[c][1]) = k
        /\ tokens' # tokens =>
             /\ \A k \in DOMAIN tokens' : \A p \in ScopePermutations(tokens'[k].scopes) :
                  JSONTokens_get(tokens', HashedScopes_from(p)) = Some(tokens'[k].token)
             /\ OnePerFingerprint(all_tokens(tokens'))
             /\ Len(all_tokens(tokens')) = Cardinality(DOMAIN tokens') ]_vars

\* set(["write","read"], T) replaced the entry loaded for ["read","write"], and a
\* lookup for ["read","write"] returns T
C19_Witness ==
    /\ \E c \in Callers :
         /\ spc[c] = "send" /\ sargs[c][1] = <<"write", "read">>
         /\ JSONTokens_get(tokens, HashedScopes_from(<<"read", "write">>)) = Some(sargs[c][2])
    /\ nsets = 1 /\ Cardinality(DOMAIN tokens) = 1
    /\ file = FileOf(<<JSONToken(<<"read", "write">>, Token(0, NoRefresh, None))>>)

\* C20: the lock on the token map is never held by a caller that is suspended: while
\* a set call waits for the queue to admit its snapshot the lock is free, so a get
\* made then is not blocked and finds, for the scopes of that set, the token it wrote
\* or one written over it by a later set, and other set calls can change the map.
C20_LockFreeWhileSuspended ==
    \A c \in Callers :
        spc[c] = "send" =>
          /\ lock = "free"
          /\ LET r == DiskStorage_get(tokens, lock, sargs[c][1])
             IN  /\ ~r.blocked
                 /\ r.token # None
                 /\ \/ r.token[1] = sargs[c][2]
                    \/ r.token[1].access_token > sargs[c][2].access_token

\* a caller waits at a full queue: its snapshot is not in the queue yet, but a get
\* for its scopes already returns its token
C20_Witness ==
    /\ Len(write_q) = Capacity
    /\ spc["c1"] = "send" /\ spc["c2"] = "idle"
    /\ lock = "free"
    /\ sargs["c1"][1] = <<"read">>
    /\ DiskStorage_get(tokens, lock, <<"read">>) = [blocked |-> FALSE, token |-> Some(sargs["c1"][2])]
    /\ \A i \in 1..Len(write_q) : \A j \in 1..Len(write_q[i]) :
         write_q[i][j].token # sargs["c1"][2]

-----------------------------------------------------------------------------
(* Claims about the backing file (SpecDisk) *)

\* every entry of the list is in the map, under the fingerprint of its scopes, with
\* the same token or one written later
LagsMap(entries) ==
    \A i \in 1..Len(entries) :
        LET k == HashedScopes_hash(entries[i].scopes)
        IN  /\ k \in DOMAIN tokens
            /\ tokens[k].token.access_token >= entries[i].token.access_token

\* C21: at every moment the backing file holds either the content loaded at
\* construction or one full snapshot of the map, the most recently dequeued one whose
\* write succeeded; it holds no entry the map did not hold, and lags the map only by
\* later updates.
C21_FileIsLoadedOrSnapshot ==
    /\ file.valid
    /\ \/ nrecv = 0 /\ file.entries \in InitialFiles
       \/ nrecv > 0 /\ OnePerFingerprint(file.entries) /\ LagsMap(file.entries)
    /\ (wpc = "recv" /\ wres = "ok") => file.entries = wtokens

\* the file holds this token
InFile(t) == \E i \in 1..Len(file.entries) : file.entries[i].token = t

\* C22: a disk-backed set call returns as soon as the queue admits its snapshot: the
\* step in which it returns puts the snapshot at the end of the queue and leaves the
\* file and the writer task as they are, so it does not wait for the file write.
C22_SetReturnsBeforeWrite ==
    [][ \A c \in Callers :
          (spc[c] = "send" /\ spc'[c] = "idle") =>
            /\ Len(write_q) < Capacity
            /\ write_q' = Append(write_q, cloned_tokens[c])
            /\ file' = file /\ wpc' = wpc /\ wtokens' = wtokens /\ nrecv' = nrecv
            /\ tokens' = tokens ]_vars

\* set has returned, get returns its token, and the file does not hold it: its
\* snapshot is still in the queue
C22_Witness ==
    /\ nsets = 1 /\ \A c \in Callers : spc[c] = "idle"
    /\ Len(write_q) = 1 /\ nrecv = 0
    /\ DiskStorage_get(tokens, lock, <<"write">>).token = Some(Token(1, "r1", None))
    /\ ~InFile(Token(1, "r1", None))
    /\ file = FileOf(<<>>)

-----------------------------------------------------------------------------
(* Further claims about the failure paths of get_token (Spec) *)

\* the number of times the delegate was called during the call
DelegateCalls(log) == NumIn(log, "token_storage_failure") + NumIn(log, "token_refresh_failed")

\* C23: when the token-getter fails in the Fetch step of Authenticator.get_token, the
\* call ends Failed in that step with the very error the token-getter reported, the
\* store is not written (in that step or earlier in the call), and the delegate is
\* not called about it.
C23_FetchFailurePropagates ==
    [][ (flow = "auth" /\ pc = "Fetch" /\ Len(ev') > Len(ev)
           /\ ev'[Len(ev) + 1].op = "fetch_ret" /\ ev'[Len(ev) + 1].out = "Err") =>
          /\ ev' = Append(ev, ev'[Len(ev) + 1])
          /\ pc' = "done"
          /\ result' = Err(ev'[Len(ev')].arg)
          /\ result'.err \in FetchErrors
          /\ store' = store /\ ~StoreWritten(ev') /\ NumIn(ev', "set") = NumIn(ev, "set")
          /\ DelegateCalls(ev') = DelegateCalls(ev) ]_vars

\* a call on an empty store ended by the token-getter's error, nothing else called
C23_Witness ==
    /\ flow = "auth" /\ pc = "done" /\ result = Err("UserError")
    /\ ev = <<Event("get", "", "None"), Event("fetch", "", ""), Event("fetch_ret", "UserError", "Err")>>
    /\ store = JSONTokens_new

\* every store access of the current call failed and the delegate answered
\* Retry::After every time
AlwaysFailingAlwaysAfter(log) ==
    /\ log # <<>>
    /\ \A i \in 1..Len(log) :
         log[i] \in {Event("get", "", "Err"),
                     Event("token_storage_failure", "false", "After"),
                     Event("delay", "", "")}

\* C24: Authenticator.get_token has no bound of its own on Retry::After iterations.
\* While every store access of the call has failed and the delegate has answered
\* After every time, the call has returned neither a token nor an error, it is at
\* the loop head or in the delay, and another failing lookup answered After is
\* possible from there: the number of Lookup iterations is limited by nothing but
\* the number of failures the store delivers (MaxErrs here).
C24_RetryAfterUnbounded ==
    (flow = "auth" /\ pc # "idle" /\ AlwaysFailingAlwaysAfter(ev)) =>
        /\ result = Pending
        /\ pc \in {"Lookup", "WaitRetry"}
        /\ pc = "WaitRetry" => ENABLED WaitRetryDone(0)
        /\ (pc = "Lookup" /\ nerrs < MaxErrs) => ENABLED LookupErr("After")
        /\ NumIn(ev, "get") = NumIn(ev, "token_storage_failure")
        /\ NumIn(ev, "delay") \in {NumIn(ev, "get") - 1, NumIn(ev, "get")}

\* as many Lookup iterations as the store delivered failures, and the call still runs
C24_Witness ==
    /\ flow = "auth" /\ ncalls = 1 /\ AlwaysFailingAlwaysAfter(ev)
    /\ NumIn(ev, "get") = MaxErrs /\ MaxErrs >= 2
    /\ NumIn(ev, "delay") = MaxErrs
    /\ pc = "Lookup" /\ result = Pending

\* the store holds, for the running call at the loop head, an expired token that has
\* no refresh token
FindsExpiredNoRefresh ==
    /\ flow = "auth" /\ pc = "Lookup"
    /\ LET r == JSONTokens_get(store, HashedScopes_from(scopes))
       IN  r # None /\ expired(r[1], now) /\ r[1].refresh_token = NoRefresh

\* C25: if Lookup in Authenticator.get_token finds an expired token that has no
\* refresh token, the call is fatal. The lookup step whose store.get succeeds on
\* such an entry ends the call by a panic
\* without a result; a panicked call never gets a result and calls nothing more;
\* and the call has issued no refresh call, no fetch call and no store write.
C25_ExpiredWithoutRefreshIsFatal ==
    [][ /\ (FindsExpiredNoRefresh /\ Len(ev') > Len(ev)
              /\ ev'[Len(ev) + 1].op = "get" /\ ev'[Len(ev) + 1].out # "Err") =>
              /\ pc' = "panicked" /\ result' = Pending
              /\ ev' = Append(ev, Event("get", "", "Expired"))
              /\ store' = store
        /\ pc = "panicked" =>
              /\ pc' = "panicked" /\ result' = Pending /\ result = Pending
              /\ ev' = ev /\ store' = store /\ ncalls' = ncalls
              /\ NumIn(ev, "refresh") = 0 /\ NumIn(ev, "fetch") = 0
              /\ NumIn(ev, "set") = 0 ]_vars

\* the second call found the first call's token expired and without a refresh token
C25_Witness ==
    /\ flow = "auth" /\ pc = "panicked" /\ ncalls = 2 /\ result = Pending
    /\ ev = <<Event("get", "", "Expired")>>
    /\ tok # None /\ tok[1].refresh_token = NoRefresh /\ expired(tok[1], now)
    /\ JSONTokens_get(store, HashedScopes_from(scopes)) = tok

-----------------------------------------------------------------------------
(* The cache of the service-account signer (Spec) *)

\* the entry is the one the running exchange writes in this step: it records the
\* requested scopes, and its token expires expires_in after the time of the parse
WrittenByExchange(e) ==
    /\ pc = "Request" /\ pc' = "done"
    /\ e.scopes = scopes
    /\ response' # None /\ response'[1].kind = "Data"
    /\ e.token.expires_in = response'[1].expires_in
    /\ e.token.expires_in # None
    /\ e.token.expires_at = Some(now + e.token.expires_in[1])

\* C26: every token held in the service-account signer's cache has no refresh token
\* and sits under the fingerprint of the scopes recorded with it; an entry is only
\* ever put there by an exchange, for the scopes of that call and with expires_at =
\* (time of the parse) + expires_in, and is not altered afterwards; a call that
\* finds the cached token expired renews it by a fresh sign and exchange, and no
\* call of the signer makes a refresh call.
C26_SignerCacheEntries ==
    [][ flow = "sa" =>
          /\ \A k \in DOMAIN store' :
               /\ store'[k].token.refresh_token = NoRefresh
               /\ k = HashedScopes_hash(store'[k].scopes)
               /\ \/ k \in DOMAIN store /\ store[k] = store'[k]
                  \/ WrittenByExchange(store'[k])
          /\ NumIn(ev', "refresh") = 0
          /\ (pc \in {"idle", "done"} /\ ncalls' = ncalls + 1
                /\ CacheOutcome(JSONTokens_get(store, HashedScopes_from(scopes')), now) = "Expired") =>
               /\ ev'[1] = Event("get", "", "Expired")
               /\ ev'[2] = Event("request", "", "")
               /\ claims' = Some(Claims_new(Key, scopes', None, now))
               /\ result'.state # "Ok" ]_vars

\* the second call found the first call's token expired and replaced it by a new
\* exchange, at a time other than 0
C26_Witness ==
    /\ flow = "sa" /\ pc = "done" /\ ncalls = 2 /\ now > 0
    /\ ev = <<Event("get", "", "Expired"), Event("request", "", ""),
              Event("post", Key.token_uri, ""), Event("request_ret", "", "Ok"),
              Event("set", "", "Ok")>>
    /\ LET k == HashedScopes_hash(scopes)
       IN  /\ k \in DOMAIN store
           /\ store[k].token.access_token = 2
           /\ store[k].token.refresh_token = NoRefresh
           /\ store[k].token.expires_at = Some(now + store[k].token.expires_in[1])
           /\ result = Ok(store[k].token)

-----------------------------------------------------------------------------
(* The shape of the token map (SpecDisk) *)

\* every entry of the map has its scopes and its token and is stored under the
\* fingerprint of its own scopes
WellKeyed(m) ==
    \A k \in DOMAIN m :
        /\ DOMAIN m[k] = {"scopes", "token"}
        /\ m[k].scopes \in Seq(Scopes)
        /\ DOMAIN m[k].token = DOMAIN Token(0, NoRefresh, None)
        /\ k = HashedScopes_hash(m[k].scopes)

\* C27: in every reachable state, the state right after the load from the file and
\* the states in which a set call is suspended at its await (where a cancelled call
\* leaves the map) included, each entry of the token map is complete, with scopes
\* and token, and is stored under the key equal to the fingerprint of the scopes
\* recorded in that entry.
C27_EntriesKeyedByOwnScopes ==
    /\ WellKeyed(tokens)
    /\ tokens = load_from_file(all_tokens(tokens))

\* a map holding the entry loaded from the file and an entry set since, while a set
\* call is suspended at the send
C27_Witness ==
    /\ \E c \in Callers : spc[c] = "send" /\ Len(write_q) = Capacity
    /\ \E k \in DOMAIN tokens : tokens[k].token.access_token = 0
    /\ \E k \in DOMAIN tokens : tokens[k].token.access_token = nsets /\ nsets > 0
    /\ Cardinality(DOMAIN tokens) >= 2

-----------------------------------------------------------------------------
(* Soundness of the lookup (SpecDisk) *)

\* C28: any token returned by the store's get for requested scopes R comes from an
\* entry whose granted scope list contains every scope in R, for all scope lists R
\* of up to MaxLen scopes, the lists with repeated scopes and the empty list included.
C28_LookupSound ==
    \A r \in ScopeLists :
        LET got == DiskStorage_get(tokens, lock, r).token
        IN  got # None =>
              \E k \in DOMAIN tokens :
                  got = Some(tokens[k].token) /\ Covers(tokens[k].scopes, r)

-----------------------------------------------------------------------------
(* Refresh of a token found by superset matching (Spec) *)

\* the refresh of the running call succeeds in this step, for a token that the lookup
\* found only by superset matching: no entry at the fingerprint of the requested
\* scopes, and the expired token in an entry whose scopes contain them
SupersetRefreshSucceeds ==
    /\ flow = "auth" /\ pc = "Refresh" /\ tok # None
    /\ HashedScopes_hash(scopes) \notin DOMAIN store
    /\ \E g \in DOMAIN store : store[g].token = tok[1] /\ Covers(store[g].scopes, scopes)
    /\ Len(ev') > Len(ev) /\ ev'[Len(ev) + 1] = Event("refresh_ret", "", "Success")

\* the new token is a new entry under the fingerprint of the requested scopes, every
\* other entry is as before, and a lookup of the granted scopes still finds the old
\* expired token with its refresh token, which is what leads to a refresh
NewEntryOldKept ==
    LET h == HashedScopes_hash(scopes)
    IN  /\ DOMAIN store' = DOMAIN store \cup {h}
        /\ tok' # tok /\ store'[h] = JSONToken(scopes, tok'[1])
        /\ \A k \in DOMAIN store : store'[k] = store[k]
        /\ \A g \in DOMAIN store :
             (store[g].token = tok[1] /\ Covers(store[g].scopes, scopes)) =>
                LET r == JSONTokens_get(store', HashedScopes_from(store[g].scopes))
                IN  /\ r = tok
                    /\ expired(r[1], now') /\ r[1].refresh_token # NoRefresh

\* C29 as stated: when get_token(R) finds an expired token only through superset
\* matching and the refresh succeeds, the new token is written as a new entry under
\* fingerprint(R) with scopes R, the entry for G keeps its expired token, and a
\* lookup of G finds that expired token again.
C29_Original ==
    [][ SupersetRefreshSucceeds => NewEntryOldKept ]_vars

\* C29, amended: the same, provided the store write that follows the refresh succeeds.
C29_SupersetRefreshAddsEntry ==
    [][ (SupersetRefreshSucceeds /\ ev'[Len(ev')] = Event("set", "", "Ok")) =>
           NewEntryOldKept ]_vars

\* get_token(["write"]) refreshed the expired token of the ["read", "write"] entry:
\* the new token is under the fingerprint of ["write"], the old one where it was
C29_Witness ==
    /\ flow = "auth" /\ pc = "done" /\ ncalls = 2 /\ scopes = <<"write">>
    /\ ev = <<Event("get", "", "Expired"), Event("refresh", "r1", ""),
              Event("refresh_ret", "", "Success"), Event("set", "", "Ok")>>
    /\ DOMAIN store = {HashedScopes_hash(<<"write">>), HashedScopes_hash(<<"read", "write">>)}
    /\ store[HashedScopes_hash(<<"write">>)] = JSONToken(<<"write">>, tok[1])
    /\ result = Ok(tok[1]) /\ tok[1].access_token = 2
    /\ LET old == store[HashedScopes_hash(<<"read", "write">>)]
       IN  /\ old.scopes = <<"read", "write">> /\ old.token.access_token = 1
           /\ expired(old.token, now) /\ old.token.refresh_token = "r1"

-----------------------------------------------------------------------------
(* Progress of the disk-write queue (SpecDiskFair) *)

\* the number of snapshots admitted to the queue so far
Admitted == nrecv + Len(write_q)

\* C30: under fair scheduling of the writer task, every snapshot admitted to the
\* disk-write queue is eventually dequeued and its write attempted: whenever a
\* snapshot is queued or being written, a state follows in which the writer has
\* taken every snapshot admitted until then and is back at recv. And every set call
\* suspended at the send, on a full queue or not, is eventually admitted and returns.
C30_QueueDrainsAndSetReturns ==
    /\ (Admitted > nrecv \/ wpc = "write") ~> (nrecv = Admitted /\ wpc = "recv")
    /\ \A c \in Callers : (spc[c] = "send") ~> (spc[c] = "idle")

\* every set call has returned and every snapshot was taken and its write attempted,
\* the last of them after its sender had returned
C30_Witness ==
    /\ nsets = MaxSets /\ nrecv = MaxSets
    /\ \A c \in Callers : spc[c] = "idle"
    /\ write_q = <<>> /\ wpc = "recv" /\ wres # "none"

=============================================================================
